---- MODULE Spec2Model ----
(***************************************************************************)
(* Model of BaseAgentTool (src/task/tools/deployment/base_agent_tool.py):  *)
(* the agent-to-agent invocation core.  _prepare_messages builds the       *)
(* outbound message list from the caller's transcript; _execute sends the  *)
(* request, consumes the streamed chunks, rebuilds content, custom content *)
(* and propagated stages, and returns the tool message.                    *)
(*                                                                         *)
(* Conventions.  A Python string or list is a sequence (a string is the    *)
(* sequence of its characters), so "" and [] are <<>> and concatenation is *)
(* \o.  An optional value is None (= <<>>) or Some(v) (= <<v>>).  A Python *)
(* dict is a function whose domain is the set of keys present.  A pydantic *)
(* object is a record with every field, the optional ones None or Some.    *)
(***************************************************************************)
EXTENDS Integers, Sequences, FiniteSets, TLC

VARIABLES
    args,            \* json.loads(tool_call.function.arguments): dict
    messages,        \* tool_call_params.messages: the caller's transcript
    pc,              \* position of _execute: "init", "stream", "stages", "done", "failed"
    err,             \* the exception that ended _execute, "" if none
    stage,           \* tool_call_params.stage: the caller's own stage
    request,         \* the request sent to the callee, None before it is sent
    content,         \* local `content` of _execute
    custom_content,  \* local `custom_content` of _execute
    stages_map,      \* local `stages_map`: index -> position of the stage in choice.stages
    choice,          \* tool_call_params.choice: the shared response surface
    result,          \* the returned tool message, None before the return
    chunkLog,        \* history: the chunks consumed so far, in arrival order
    stgLog,          \* history: the stage deltas processed so far, in arrival order
    closedCalls,     \* history: append/add calls _execute made on a closed stage
    prepared,        \* result of a stand-alone _prepare_messages call, None before it
    sib              \* a second, concurrent _execute on the same choice: its locals

vars == <<args, messages, pc, err, stage, request, content, custom_content,
          stages_map, choice, result, chunkLog, stgLog, closedCalls, prepared, sib>>

----------------------------------------------------------------------------
(* Bounds of the model *)

MaxTranscript == 3
MaxChunks == 2
MaxDeltas == 3

----------------------------------------------------------------------------
(* Values *)

None == <<>>
Some(v) == <<v>>

EmptyDict == [k \in {} |-> 0]

\* The identity of the callee (self.name), the key of its state in the transcript.
SelfName == "A"
OtherName == "B"

\* tool_call_params.tool_call.id and tool_call_params.conversation_id
ToolCallId == "call-1"
ConversationId == "conv-1"

\* Truthiness of a str, list or dict value: empty is falsy.
Truthy(v) == v # <<>>

\* dict.get(key) followed by a truthiness test
GetTruthy(d, k) == k \in DOMAIN d /\ Truthy(d[k])

\* Restriction of a dict to a set of keys
Restrict(d, ks) == [k \in ks |-> d[k]]

----------------------------------------------------------------------------
(* Attachments *)

\* The optional fields of `obj` that are set
SetFields(obj, optional) == {k \in optional : obj[k] # None}

\* Attachment.dict(exclude_none=True): title and url are optional
AttachmentDict(a) == [k \in SetFields(a, {"title", "url"}) |-> a[k][1]]

\* Attachment(**d): the fields absent from the dict default to None
AttachmentOf(d) ==
    [title |-> IF "title" \in DOMAIN d THEN Some(d["title"]) ELSE None,
     url   |-> IF "url" \in DOMAIN d THEN Some(d["url"]) ELSE None]

\* The k-th attachment of the inputs
TitleAtt(k) == [title |-> Some("title" \o ToString(k)), url |-> None]
UrlAtt(k) == [title |-> None, url |-> Some("url" \o ToString(k))]

----------------------------------------------------------------------------
(* Message and CustomContent .dict(exclude_none=True) *)

\* CustomContent.dict(exclude_none=True): state and attachments are optional, and the
\* attachments are converted in turn
CustomContentDict(cc) ==
    [k \in SetFields(cc, {"state", "attachments"}) |->
        IF k = "attachments"
        THEN [i \in 1..Len(cc.attachments[1]) |-> AttachmentDict(cc.attachments[1][i])]
        ELSE cc.state[1]]

\* Message.dict(exclude_none=True): role and content are set, custom_content optional
MessageDict(m) ==
    [k \in {"role", "content"} \cup SetFields(m, {"custom_content"}) |->
        IF k = "custom_content" THEN CustomContentDict(m.custom_content[1]) ELSE m[k]]

----------------------------------------------------------------------------
(* _prepare_messages *)

\* CarriesState that tests the presence of the callee's key, not the truth of its value
CarriesStateByKey(msg, name) ==
    /\ msg.role = "assistant"
    /\ msg.custom_content # None
    /\ msg.custom_content[1].state # None
    /\ name \in DOMAIN msg.custom_content[1].state[1]

\* msg.role == ASSISTANT and msg.custom_content and msg.custom_content.state
\* and msg_state.get(name): lines 157-160
CarriesState(msg, name) ==
    /\ msg.role = "assistant"
    /\ msg.custom_content # None
    /\ msg.custom_content[1].state # None
    /\ Truthy(msg.custom_content[1].state[1])
    /\ GetTruthy(msg.custom_content[1].state[1], name)

\* Python list indexing msgs[i] with 0-based i, where a negative i counts from the end
PyIndex(msgs, i) == IF i >= 0 THEN msgs[i + 1] ELSE msgs[Len(msgs) + i + 1]

\* deepcopy(msg) with custom_content.state replaced by the callee's value: lines 165-166
CopyWithState(msg, name) ==
    [msg EXCEPT !.custom_content =
        Some([msg.custom_content[1] EXCEPT !.state = Some(msg.custom_content[1].state[1][name])])]

\* The two dicts appended for transcript index idx (0-based), <<>> if it does not match:
\* the body of the loop, lines 156-167
HistoryPair(msgs, idx, name) ==
    IF CarriesState(PyIndex(msgs, idx), name)
    THEN << MessageDict(PyIndex(msgs, idx - 1)),
            MessageDict(CopyWithState(PyIndex(msgs, idx), name)) >>
    ELSE << >>

\* for idx in range(n): the pairs of indices 0 .. n-1 in order, lines 155-167
RECURSIVE History(_, _, _)
History(msgs, n, name) ==
    IF n = 0 THEN << >>
    ELSE History(msgs, n - 1, name) \o HistoryPair(msgs, n - 1, name)

\* PropagateHistory with the default True
PropagateHistoryByDefault(a) == "propagate_history" \notin DOMAIN a \/ a["propagate_history"]

\* bool(arguments.get("propagate_history", False)): line 141
PropagateHistory(a) == "propagate_history" \in DOMAIN a /\ a["propagate_history"]

\* AssignState with copied_msg bound to msg itself: no deepcopy
AssignStateInPlace(msg, name) ==
    [copied |-> CopyWithState(msg, name), msg |-> CopyWithState(msg, name)]

\* Lines 164-166: copied_msg = deepcopy(msg) and the assignment to its state.  The
\* assignment writes to the object that copied_msg names; `msg` is the transcript's
\* message after it, which the deepcopy keeps apart from the copy.
AssignState(msg, name) ==
    [copied |-> CopyWithState(msg, name), msg |-> msg]

\* Lines 155-167: the caller's transcript after the first n iterations of the loop
RECURSIVE TranscriptAfter(_, _, _)
TranscriptAfter(msgs, n, name) ==
    IF n = 0 THEN msgs
    ELSE LET t == TranscriptAfter(msgs, n - 1, name)
         IN  IF CarriesState(t[n], name)
             THEN [t EXCEPT ![n] = AssignState(t[n], name).msg]
             ELSE t

\* tool_call_params.messages after _prepare_messages: the loop runs only when the
\* prompt was read and the history is propagated
PrepareTranscript(a, msgs, name) ==
    IF "prompt" \in DOMAIN a /\ PropagateHistory(a)
    THEN TranscriptAfter(msgs, Len(msgs), name)
    ELSE msgs

\* UserMessage that carries the prompt and no custom content
UserMessageBare(msgs, prompt) ==
    [role |-> "user", content |-> prompt, custom_content |-> None]

\* The final user message, lines 170-177.  The literal always has the custom_content
\* key; its value is None or the dict of the last message's custom content.
UserMessage(msgs, prompt) ==
    [role |-> "user",
     content |-> prompt,
     custom_content |->
        IF PyIndex(msgs, -1).custom_content # None
        THEN Some(CustomContentDict(PyIndex(msgs, -1).custom_content[1]))
        ELSE None]

\* PrepareMessages that reads the prompt with arguments.get("prompt"): no KeyError
PrepareMessagesGet(a, msgs, name) ==
    [err |-> "",
     messages |-> (IF PropagateHistory(a) THEN History(msgs, Len(msgs), name) ELSE << >>)
                  \o << UserMessage(msgs, IF "prompt" \in DOMAIN a THEN a["prompt"] ELSE << >>) >>]

\* _prepare_messages: [err |-> "" or the exception, messages |-> the returned list]
PrepareMessages(a, msgs, name) ==
    IF "prompt" \notin DOMAIN a
    THEN [err |-> "KeyError", messages |-> << >>]
    ELSE [err |-> "",
          messages |-> (IF PropagateHistory(a) THEN History(msgs, Len(msgs), name) ELSE << >>)
                       \o << UserMessage(msgs, a["prompt"]) >>]

----------------------------------------------------------------------------
(* Stage: the operations of the caller's stage surface that _execute uses *)

\* A stage that is not closed takes the fragment; a closed one rejects the call.
StageAppendName(s, text) ==
    IF s.closed THEN [err |-> "StageClosed", stage |-> s]
    ELSE [err |-> "", stage |-> [s EXCEPT !.name = @ \o text]]

StageAppendContent(s, text) ==
    IF s.closed THEN [err |-> "StageClosed", stage |-> s]
    ELSE [err |-> "", stage |-> [s EXCEPT !.content = @ \o text]]

StageAddAttachment(s, a) ==
    IF s.closed THEN [err |-> "StageClosed", stage |-> s]
    ELSE [err |-> "", stage |-> [s EXCEPT !.attachments = Append(@, a)]]

\* StageProcessor.open_stage(choice, name): a new open stage, named `name` ("" for None)
OpenStage(name) ==
    [name |-> IF name = None THEN << >> ELSE name[1],
     content |-> << >>, attachments |-> << >>, closed |-> FALSE]

\* StageProcessor.close_stage_safely(stage): closes; a no-op on a closed stage, never an error
CloseStageSafely(s) == [s EXCEPT !.closed = TRUE]

----------------------------------------------------------------------------
(* Inputs: tool-call arguments and transcripts *)

\* A transcript message
Msg(role, text, cc) == [role |-> role, content |-> text, custom_content |-> cc]

\* A custom content carrying only a state, and one carrying only attachments
StateCC(st) == Some([state |-> Some(st), attachments |-> None])
AttCC(atts) == Some([state |-> None, attachments |-> Some(atts)])

Sub1 == [x |-> 1]
Sub2 == [x |-> 2]

\* The per-callee state mappings of assistant messages: empty, one callee, both
\* callees, and an entry of the callee whose value is the empty dict
StateMaps ==
    { EmptyDict,
      [k \in {SelfName} |-> Sub1],
      [k \in {OtherName} |-> Sub1],
      [k \in {SelfName, OtherName} |-> IF k = SelfName THEN Sub2 ELSE Sub1],
      [k \in {SelfName, OtherName} |-> IF k = SelfName THEN EmptyDict ELSE Sub2] }

Turns ==
    { Msg("user", <<"hi">>, None),
      Msg("user", <<"more">>, None),
      Msg("user", <<"more">>, AttCC(<< UrlAtt(0) >>)),
      Msg("assistant", <<"ok">>, None) }
    \cup { Msg("assistant", <<"ok">>, StateCC(st)) : st \in StateMaps }

RECURSIVE SeqsUpTo(_, _)
SeqsUpTo(S, n) ==
    IF n = 0 THEN { << >> }
    ELSE LET shorter == SeqsUpTo(S, n - 1)
         IN  shorter \cup { Append(q, e) : q \in shorter, e \in S }

\* The transcripts: a request always carries at least the message being answered
Transcripts == SeqsUpTo(Turns, MaxTranscript) \ { << >> }

\* Arguments of a stand-alone _prepare_messages call
PrepArgs ==
    { [k \in ks |-> IF k = "prompt" THEN <<"continue">> ELSE ph] :
        ks \in SUBSET {"prompt", "propagate_history"}, ph \in BOOLEAN }

\* Arguments of _execute: prompt absent, empty or set; an extra key that is forwarded
ExecArgs ==
    { [k \in {"mode"} |-> <<"fast">>],
      [k \in {"prompt", "mode"} |-> IF k = "prompt" THEN << >> ELSE <<"fast">>],
      [k \in {"prompt", "mode"} |-> IF k = "prompt" THEN <<"go">> ELSE <<"fast">>],
      [k \in {"prompt", "propagate_history"} |-> IF k = "prompt" THEN <<"go">> ELSE TRUE] }

\* The transcript of the _execute runs
ExecTranscript ==
    << Msg("user", <<"hi">>, None),
       Msg("assistant", <<"ok">>, StateCC([k \in {SelfName} |-> Sub1])),
       Msg("user", <<"more">>, AttCC(<< UrlAtt(0) >>)) >>

----------------------------------------------------------------------------
(* Inputs: the chunks of the response stream *)

\* The text fragment that the k-th input of its kind carries: every fragment is
\* distinct, so the arrival order of the fragments can be read off a concatenation.
Frag(kind, k) == << kind \o ToString(k) >>

\* A chunk with no choices, and a chunk whose first choice carries `delta`
NoChoices == [choices |-> << >>]
Chunk(delta) == [choices |-> << [delta |-> delta] >>]
Delta(text, cc) == [content |-> text, custom_content |-> cc]

\* The custom content of a delta; `stages` says whether it carries stage deltas.  The
\* stage deltas themselves are read one by one by the loop of line 98.
DeltaCC(atts, st, stages) == [attachments |-> atts, state |-> st, stages |-> stages]

\* The k-th chunk of a stream that exercises the stage propagation
StageChunks(k) ==
    { Chunk(Delta(Some(Frag("c", k)), None)),
      Chunk(Delta(None, Some(DeltaCC(None, None, TRUE)))) }

\* The k-th chunk of a stream that exercises content, state and attachments
FlatChunks(k) ==
    { NoChoices,
      [choices |-> << [delta |-> Delta(Some(Frag("c", k)), None)],
                      [delta |-> Delta(Some(Frag("other", k)), None)] >>] }
    \cup { Chunk(Delta(text, cc)) :
            text \in {None, Some(Frag("c", k))},
            cc \in {None, Some(DeltaCC(None, None, TRUE))}
                   \cup { Some(DeltaCC(atts, st, FALSE)) :
                            atts \in {None, Some(<< TitleAtt(k), UrlAtt(k) >>)},
                            st \in {None, Some(EmptyDict), Some(("x" \o ToString(k)) :> k)} } }

\* A stage delta of the response: every field but the index is optional
StageDelta(idx, fields, status, k) ==
    [index |-> idx,
     name |-> IF "name" \in fields THEN Some(Frag("n", k)) ELSE None,
     content |-> IF "content" \in fields THEN Some(Frag("s", k)) ELSE None,
     attachments |-> IF "attachments" \in fields THEN Some(<< TitleAtt(k), UrlAtt(k) >>) ELSE None,
     status |-> IF status = "" THEN None ELSE Some(<< status >>)]

\* The k-th stage delta of a stream that exercises the stage propagation: at index 0
\* every single field and the pairs that the priority order decides, at index 1 a
\* name and a completion
StageDeltas(k) ==
    { StageDelta(0, f[1], f[2], k) :
        f \in { << {"name"}, "" >>, << {"content"}, "" >>, << {"attachments"}, "" >>,
                << {}, "completed" >>, << {}, "running" >>,
                << {"name", "content"}, "" >>, << {"content", "attachments"}, "" >>,
                << {"attachments"}, "completed" >> } }
    \cup { StageDelta(1, f[1], f[2], k) :
        f \in { << {"name"}, "" >>, << {}, "completed" >> } }

\* The k-th stage delta of a stream that exercises content, state and attachments
FlatStageDeltas(k) ==
    { StageDelta(0, {"name"}, "", k), StageDelta(0, {}, "completed", k) }

\* The dict of a stage delta in cc.dict(exclude_none=True), line 96
StageDeltaDict(o) ==
    [k \in {"index"} \cup SetFields(o, {"name", "content", "attachments", "status"}) |->
        IF k = "index" THEN o.index
        ELSE IF k = "attachments"
             THEN [i \in 1..Len(o.attachments[1]) |-> AttachmentDict(o.attachments[1][i])]
             ELSE o[k][1]]

----------------------------------------------------------------------------
(* _execute: the pieces of its body *)

\* Lines 31-33: the arguments forwarded as configuration; a truthy prompt is deleted
Arguments(a) ==
    IF GetTruthy(a, "prompt") THEN Restrict(a, DOMAIN a \ {"prompt"}) ELSE a

\* Lines 31-32: a truthy prompt is appended to the name of the caller's stage
LabelStage(s, a) ==
    IF GetTruthy(a, "prompt")
    THEN StageAppendName(s, <<":", " ">> \o a["prompt"]).stage
    ELSE s

\* Lines 50-62: the request: messages, configuration and the conversation header
Request(msgs, a) ==
    [messages |-> msgs,
     configuration |-> Arguments(a),
     conversation_id |-> ConversationId,
     stream |-> TRUE]

\* MirrorContent that sets the stage's content to the delta's instead of appending it
MirrorContentReplacing(s, delta) ==
    IF delta.content # None /\ Truthy(delta.content[1])
    THEN [s EXCEPT !.content = delta.content[1]]
    ELSE s

\* Lines 86-88: the content of the delta, mirrored to the caller's stage
MirrorContent(s, delta) ==
    IF delta.content # None /\ Truthy(delta.content[1])
    THEN StageAppendContent(s, delta.content[1]).stage
    ELSE s

\* AccumulateContent that puts the new fragment in front
AccumulateContentInFront(text, delta) ==
    IF delta.content # None /\ Truthy(delta.content[1])
    THEN delta.content[1] \o text
    ELSE text

AccumulateContent(text, delta) ==
    IF delta.content # None /\ Truthy(delta.content[1])
    THEN text \o delta.content[1]
    ELSE text

\* AccumulateCustomContent that merges a new state into the accumulated one
AccumulateCustomContentMerge(acc, delta) ==
    IF delta.custom_content = None THEN acc
    ELSE LET cc == delta.custom_content[1]
             withAtts == IF cc.attachments # None /\ Truthy(cc.attachments[1])
                         THEN [acc EXCEPT !.attachments = Some(@[1] \o cc.attachments[1])]
                         ELSE acc
         IN  IF cc.state # None /\ Truthy(cc.state[1])
             THEN [withAtts EXCEPT !.state =
                    IF @ = None THEN cc.state ELSE Some(cc.state[1] @@ @[1])]
             ELSE withAtts

\* Lines 89-94: attachments are appended to the accumulator, a truthy state replaces it
AccumulateCustomContent(acc, delta) ==
    IF delta.custom_content = None THEN acc
    ELSE LET cc == delta.custom_content[1]
             withAtts == IF cc.attachments # None /\ Truthy(cc.attachments[1])
                         THEN [acc EXCEPT !.attachments = Some(@[1] \o cc.attachments[1])]
                         ELSE acc
         IN  IF cc.state # None /\ Truthy(cc.state[1])
             THEN [withAtts EXCEPT !.state = cc.state]
             ELSE withAtts

\* Lines 96-97: whether the custom content of the delta carries stage deltas
HasStages(delta) ==
    delta.custom_content # None /\ delta.custom_content[1].stages

\* Lines 106-107: add_attachment(Attachment(**a)) for each attachment dict, in order;
\* the first rejected call ends the loop
RECURSIVE AddStageAttachments(_, _)
AddStageAttachments(s, atts) ==
    IF atts = << >> THEN [err |-> "", stage |-> s]
    ELSE LET r == StageAddAttachment(s, AttachmentOf(Head(atts)))
         IN  IF r.err # "" THEN r ELSE AddStageAttachments(r.stage, Tail(atts))

\* UpdateOpenedStage with the content tested before the name
UpdateOpenedStageContentFirst(s, stg) ==
    IF GetTruthy(stg, "content") THEN StageAppendContent(s, stg["content"])
    ELSE IF GetTruthy(stg, "name") THEN StageAppendName(s, stg["name"])
    ELSE IF GetTruthy(stg, "attachments") THEN AddStageAttachments(s, stg["attachments"])
    ELSE IF GetTruthy(stg, "status") /\ stg["status"] = <<"completed">>
         THEN [err |-> "", stage |-> CloseStageSafely(s)]
    ELSE [err |-> "", stage |-> s]

\* UpdateOpenedStage that closes the stage with a close that a closed stage rejects
UpdateOpenedStageStrictClose(s, stg) ==
    IF GetTruthy(stg, "name") THEN StageAppendName(s, stg["name"])
    ELSE IF GetTruthy(stg, "content") THEN StageAppendContent(s, stg["content"])
    ELSE IF GetTruthy(stg, "attachments") THEN AddStageAttachments(s, stg["attachments"])
    ELSE IF GetTruthy(stg, "status") /\ stg["status"] = <<"completed">>
         THEN IF s.closed THEN [err |-> "StageClosed", stage |-> s]
              ELSE [err |-> "", stage |-> CloseStageSafely(s)]
    ELSE [err |-> "", stage |-> s]

\* UpdateOpenedStage that also closes the stage when a delta that carries a fragment
\* has the status 'completed'
UpdateOpenedStageThenCloses(s, stg) ==
    LET r == IF GetTruthy(stg, "name") THEN StageAppendName(s, stg["name"])
             ELSE IF GetTruthy(stg, "content") THEN StageAppendContent(s, stg["content"])
             ELSE IF GetTruthy(stg, "attachments") THEN AddStageAttachments(s, stg["attachments"])
             ELSE [err |-> "", stage |-> s]
    IN  IF r.err = "" /\ GetTruthy(stg, "status") /\ stg["status"] = <<"completed">>
        THEN [err |-> "", stage |-> CloseStageSafely(r.stage)]
        ELSE r

\* Lines 100-109: the one operation that a delta selects on the stage already opened
\* for its index: name, else content, else attachments, else status 'completed'
UpdateOpenedStage(s, stg) ==
    IF GetTruthy(stg, "name") THEN StageAppendName(s, stg["name"])
    ELSE IF GetTruthy(stg, "content") THEN StageAppendContent(s, stg["content"])
    ELSE IF GetTruthy(stg, "attachments") THEN AddStageAttachments(s, stg["attachments"])
    ELSE IF GetTruthy(stg, "status") /\ stg["status"] = <<"completed">>
         THEN [err |-> "", stage |-> CloseStageSafely(s)]
    ELSE [err |-> "", stage |-> s]

\* Opened that takes the falsy index 0 for a missing one
OpenedNonZero(map, idx) == idx # 0 /\ idx \in DOMAIN map

\* Line 100: stages_map.get(idx) finds a stage
Opened(map, idx) == idx \in DOMAIN map

\* Lines 99-111: one iteration of the loop over the stage deltas
ApplyStageDelta(ch, map, stg) ==
    LET idx == stg["index"] IN
    IF Opened(map, idx)
    THEN LET r == UpdateOpenedStage(ch.stages[map[idx]], stg)
         IN  [err |-> r.err,
              choice |-> [ch EXCEPT !.stages[map[idx]] = r.stage],
              stages_map |-> map]
    ELSE [err |-> "",
          choice |-> [ch EXCEPT !.stages =
                        Append(@, OpenStage(IF "name" \in DOMAIN stg THEN Some(stg["name"]) ELSE None))],
          stages_map |-> map @@ (idx :> Len(ch.stages) + 1)]

\* CloseStages that skips the stage of a falsy index (index 0)
CloseStagesSkipZero(ch, map) ==
    [ch EXCEPT !.stages =
        [i \in 1..Len(ch.stages) |->
            IF \E idx \in DOMAIN map : idx # 0 /\ map[idx] = i
            THEN CloseStageSafely(ch.stages[i]) ELSE ch.stages[i]]]

\* Lines 114-115: every stage of stages_map is closed safely
CloseStages(ch, map) ==
    [ch EXCEPT !.stages =
        [i \in 1..Len(ch.stages) |->
            IF \E idx \in DOMAIN map : map[idx] = i
            THEN CloseStageSafely(ch.stages[i]) ELSE ch.stages[i]]]

\* AddAttachments that puts each attachment in front of those already on the choice
AddAttachmentsInFront(ch, atts) ==
    [ch EXCEPT !.attachments =
        [i \in 1..Len(atts) |-> AttachmentOf(AttachmentDict(atts[Len(atts) + 1 - i]))] \o @]

\* Lines 120-123: every accumulated attachment is added to the choice
AddAttachments(ch, atts) ==
    [ch EXCEPT !.attachments =
        @ \o [i \in 1..Len(atts) |-> AttachmentOf(AttachmentDict(atts[i]))]]

\* Lines 125-130: the returned tool message
ToolMessage(text, cc, id) ==
    [role |-> "tool", content |-> text, custom_content |-> cc, tool_call_id |-> id]

----------------------------------------------------------------------------
(* State machine *)

\* The caller's own stage, opened by the caller for this tool call
CallerStage == [name |-> <<"tool">>, content |-> << >>, attachments |-> << >>, closed |-> FALSE]

\* Lines 68-70: content = '', custom_content = CustomContent(attachments=[]), stages_map = {}
NewCustomContent == [state |-> None, attachments |-> Some(<< >>)]

\* The second tool call of the same response: its id, its arguments and its own stage
SiblingCallId == "call-2"
SiblingArgs == [prompt |-> <<"go">>, mode |-> <<"fast">>]
SiblingStage == [name |-> <<"tool">>, content |-> << >>, attachments |-> << >>, closed |-> FALSE]

\* Lines 68-70 for the second tool call: every _execute has its own locals
NewSibling ==
    [pc |-> "init", err |-> "", stage |-> SiblingStage, request |-> None,
     content |-> << >>, custom_content |-> NewCustomContent, stages_map |-> EmptyDict,
     result |-> None, chunkLog |-> << >>, stgLog |-> << >>]

InitCommon ==
    /\ pc = "init"
    /\ err = ""
    /\ stage = CallerStage
    /\ request = None
    /\ content = << >>
    /\ custom_content = NewCustomContent
    /\ stages_map = EmptyDict
    /\ choice = [stages |-> << >>, attachments |-> << >>]
    /\ result = None
    /\ chunkLog = << >>
    /\ stgLog = << >>
    /\ closedCalls = 0
    /\ prepared = None
    /\ sib = NewSibling

\* A tool call whose stream exercises the stage propagation
Init ==
    /\ args \in {a \in ExecArgs : "mode" \in DOMAIN a /\ ("prompt" \in DOMAIN a => Truthy(a["prompt"]))}
    /\ messages = ExecTranscript
    /\ InitCommon

\* A tool call with any of the arguments
InitFlat ==
    /\ args \in ExecArgs
    /\ messages = ExecTranscript
    /\ InitCommon

\* A stand-alone call of _prepare_messages
InitPrep ==
    /\ args \in PrepArgs
    /\ messages \in Transcripts
    /\ InitCommon

\* Lines 29-70: the arguments are read, the caller's stage is labelled, the messages
\* are prepared and the request is sent; a missing prompt raises before the request
Start ==
    /\ pc = "init"
    /\ LET prep == PrepareMessages(args, messages, SelfName) IN
        /\ stage' = LabelStage(stage, args)
        /\ IF prep.err # ""
           THEN /\ pc' = "failed"
                /\ err' = prep.err
                /\ request' = request
           ELSE /\ pc' = "stream"
                /\ err' = err
                /\ request' = Some(Request(prep.messages, args))
    /\ messages' = PrepareTranscript(args, messages, SelfName)
    /\ UNCHANGED <<args, content, custom_content, stages_map, choice,
                   result, chunkLog, stgLog, closedCalls, prepared, sib>>

\* Lines 83-97: the next chunk, one of `chunks`, arrives; only the delta of its first
\* choice is read
ConsumeChunk(chunks) ==
    /\ pc = "stream"
    /\ Len(chunkLog) < MaxChunks
    /\ \E chunk \in chunks :
        /\ chunkLog' = Append(chunkLog, chunk)
        /\ IF Len(chunk.choices) > 0
           THEN LET delta == chunk.choices[1].delta IN
                /\ ~(HasStages(delta) /\ Len(stgLog) >= MaxDeltas)
                /\ stage' = MirrorContent(stage, delta)
                /\ content' = AccumulateContent(content, delta)
                /\ custom_content' = AccumulateCustomContent(custom_content, delta)
                /\ pc' = IF HasStages(delta) THEN "stages" ELSE "stream"
           ELSE UNCHANGED <<stage, content, custom_content, pc>>
    /\ UNCHANGED <<args, messages, err, request, stages_map, choice, result,
                   stgLog, closedCalls, prepared, sib>>

\* Lines 98-111: the next stage delta of the chunk, one of `deltas`, is applied; `last` says whether it
\* ends the list.  A call that the stage rejects raises out of _execute.
ProcessStageDelta(deltas) ==
    /\ pc = "stages"
    /\ \E o \in deltas, last \in BOOLEAN :
        LET r == ApplyStageDelta(choice, stages_map, StageDeltaDict(o)) IN
        /\ (Len(stgLog) + 1 >= MaxDeltas => last)
        /\ stgLog' = Append(stgLog, o)
        /\ choice' = r.choice
        /\ stages_map' = r.stages_map
        /\ IF r.err # ""
           THEN /\ pc' = "failed"
                /\ err' = r.err
                /\ closedCalls' = closedCalls + 1
           ELSE /\ pc' = IF last THEN "stream" ELSE "stages"
                /\ err' = err
                /\ closedCalls' = closedCalls
    /\ UNCHANGED <<args, messages, stage, request, content, custom_content, result,
                   chunkLog, prepared, sib>>

\* Lines 113-130: the stream has ended; the stages are closed, the attachments are
\* added to the choice and the tool message is returned
Finish ==
    /\ pc = "stream"
    /\ choice' = AddAttachments(CloseStages(choice, stages_map), custom_content.attachments[1])
    /\ result' = Some(ToolMessage(content, custom_content, ToolCallId))
    /\ pc' = "done"
    /\ UNCHANGED <<args, messages, err, stage, request, content, custom_content,
                   stages_map, chunkLog, stgLog, closedCalls, prepared, sib>>

\* StreamError that closes the stages of stages_map before the error propagates
StreamErrorClosing ==
    /\ pc = "stream"
    /\ pc' = "failed"
    /\ err' = "TransportError"
    /\ choice' = CloseStages(choice, stages_map)
    /\ UNCHANGED <<args, messages, stage, request, content, custom_content, stages_map,
                   result, chunkLog, stgLog, closedCalls, prepared, sib>>

\* Line 83: the stream raises a transport error instead of the next chunk
StreamError ==
    /\ pc = "stream"
    /\ pc' = "failed"
    /\ err' = "TransportError"
    /\ UNCHANGED <<args, messages, stage, request, content, custom_content, stages_map,
                   choice, result, chunkLog, stgLog, closedCalls, prepared, sib>>

\* Lines 132-179: _prepare_messages called on its own
Prepare ==
    /\ prepared = None
    /\ prepared' = Some(PrepareMessages(args, messages, SelfName))
    /\ messages' = PrepareTranscript(args, messages, SelfName)
    /\ UNCHANGED <<args, pc, err, stage, request, content, custom_content,
                   stages_map, choice, result, chunkLog, stgLog, closedCalls, sib>>

----------------------------------------------------------------------------
(* Two concurrent tool calls on one choice.  _execute yields to the other call only
   where it awaits: at the request and at each chunk of the stream.  The loop over
   the stage deltas of a chunk has no await, so a call inside it (pc "stages") is
   not interleaved with the other. *)

\* The k-th chunk and the k-th stage delta of the first call's stream
ConcChunks(k) ==
    { Chunk(Delta(Some(Frag("c", k)), None)),
      Chunk(Delta(Some(Frag("c", k)), Some(DeltaCC(None, None, TRUE)))) }
ConcStageDeltas(k) ==
    { StageDelta(0, {"name"}, "", k), StageDelta(0, {}, "completed", k) }

\* The k-th chunk and the k-th stage delta of the second call's stream: the same
\* stage index, fragments of its own
SiblingChunks(k) ==
    { Chunk(Delta(Some(Frag("d", k)), Some(DeltaCC(None, None, TRUE)))) }
SiblingStageDeltas(k) ==
    { [StageDelta(0, {"name"}, "", k) EXCEPT !.name = Some(Frag("m", k))],
      StageDelta(0, {}, "completed", k) }

\* Two tool calls dispatched for one response
InitConc ==
    /\ args = [prompt |-> <<"go">>, mode |-> <<"fast">>]
    /\ messages = ExecTranscript
    /\ InitCommon

\* Lines 29-70 of the second call
SiblingStart ==
    /\ sib.pc = "init"
    /\ pc # "stages"
    /\ LET prep == PrepareMessages(SiblingArgs, messages, OtherName) IN
        sib' = IF prep.err # ""
               THEN [sib EXCEPT !.stage = LabelStage(@, SiblingArgs),
                                !.pc = "failed", !.err = prep.err]
               ELSE [sib EXCEPT !.stage = LabelStage(@, SiblingArgs),
                                !.pc = "stream",
                                !.request = Some(Request(prep.messages, SiblingArgs))]
    /\ messages' = PrepareTranscript(SiblingArgs, messages, OtherName)
    /\ UNCHANGED <<args, pc, err, stage, request, content, custom_content, stages_map,
                   choice, result, chunkLog, stgLog, closedCalls, prepared>>

\* Lines 83-97 of the second call
SiblingConsumeChunk(chunks) ==
    /\ sib.pc = "stream"
    /\ pc # "stages"
    /\ Len(sib.chunkLog) < MaxChunks
    /\ \E chunk \in chunks :
        IF Len(chunk.choices) > 0
        THEN LET delta == chunk.choices[1].delta IN
             /\ ~(HasStages(delta) /\ Len(sib.stgLog) >= MaxDeltas)
             /\ sib' = [sib EXCEPT !.chunkLog = Append(@, chunk),
                                   !.stage = MirrorContent(@, delta),
                                   !.content = AccumulateContent(@, delta),
                                   !.custom_content = AccumulateCustomContent(@, delta),
                                   !.pc = IF HasStages(delta) THEN "stages" ELSE "stream"]
        ELSE sib' = [sib EXCEPT !.chunkLog = Append(@, chunk)]
    /\ UNCHANGED <<args, messages, pc, err, stage, request, content, custom_content,
                   stages_map, choice, result, chunkLog, stgLog, closedCalls, prepared>>

\* SiblingProcessStageDelta with one stages_map that both calls read and write
SiblingProcessStageDeltaSharedMap(deltas) ==
    /\ sib.pc = "stages"
    /\ \E o \in deltas, last \in BOOLEAN :
        LET r == ApplyStageDelta(choice, stages_map, StageDeltaDict(o)) IN
        /\ (Len(sib.stgLog) + 1 >= MaxDeltas => last)
        /\ choice' = r.choice
        /\ stages_map' = r.stages_map
        /\ sib' = [sib EXCEPT !.stgLog = Append(@, o),
                              !.pc = IF r.err # "" THEN "failed"
                                     ELSE IF last THEN "stream" ELSE "stages",
                              !.err = IF r.err # "" THEN r.err ELSE @]
    /\ UNCHANGED <<args, messages, pc, err, stage, request, content, custom_content,
                   result, chunkLog, stgLog, closedCalls, prepared>>

\* Lines 98-111 of the second call: the stage is looked up in, and bound in, the
\* second call's own stages_map, and opened on the choice that both calls share
SiblingProcessStageDelta(deltas) ==
    /\ sib.pc = "stages"
    /\ \E o \in deltas, last \in BOOLEAN :
        LET r == ApplyStageDelta(choice, sib.stages_map, StageDeltaDict(o)) IN
        /\ (Len(sib.stgLog) + 1 >= MaxDeltas => last)
        /\ choice' = r.choice
        /\ sib' = [sib EXCEPT !.stgLog = Append(@, o),
                              !.stages_map = r.stages_map,
                              !.pc = IF r.err # "" THEN "failed"
                                     ELSE IF last THEN "stream" ELSE "stages",
                              !.err = IF r.err # "" THEN r.err ELSE @]
    /\ UNCHANGED <<args, messages, pc, err, stage, request, content, custom_content,
                   stages_map, result, chunkLog, stgLog, closedCalls, prepared>>

\* Lines 113-130 of the second call
SiblingFinish ==
    /\ sib.pc = "stream"
    /\ pc # "stages"
    /\ choice' = AddAttachments(CloseStages(choice, sib.stages_map),
                                sib.custom_content.attachments[1])
    /\ sib' = [sib EXCEPT !.result = Some(ToolMessage(sib.content, sib.custom_content,
                                                      SiblingCallId)),
                          !.pc = "done"]
    /\ UNCHANGED <<args, messages, pc, err, stage, request, content, custom_content,
                   stages_map, result, chunkLog, stgLog, closedCalls, prepared>>

\* Line 83 of the second call: its stream raises a transport error
SiblingStreamError ==
    /\ sib.pc = "stream"
    /\ pc # "stages"
    /\ sib' = [sib EXCEPT !.pc = "failed", !.err = "TransportError"]
    /\ UNCHANGED <<args, messages, pc, err, stage, request, content, custom_content,
                   stages_map, choice, result, chunkLog, stgLog, closedCalls, prepared>>

\* The first call runs between the awaits of the second
FirstCallStep ==
    /\ sib.pc # "stages"
    /\ \/ Start
       \/ ConsumeChunk(ConcChunks(Len(chunkLog) + 1))
       \/ ProcessStageDelta(ConcStageDeltas(Len(stgLog) + 1))
       \/ Finish
       \/ StreamError

NextConc ==
    \/ FirstCallStep
    \/ SiblingStart
    \/ SiblingConsumeChunk(SiblingChunks(Len(sib.chunkLog) + 1))
    \/ SiblingProcessStageDelta(SiblingStageDeltas(Len(sib.stgLog) + 1))
    \/ SiblingFinish
    \/ SiblingStreamError

SpecConc == InitConc /\ [][NextConc]_vars

Next ==
    \/ Start
    \/ ConsumeChunk(StageChunks(Len(chunkLog) + 1))
    \/ ProcessStageDelta(StageDeltas(Len(stgLog) + 1))
    \/ Finish
    \/ StreamError

NextFlat ==
    \/ Start
    \/ ConsumeChunk(FlatChunks(Len(chunkLog) + 1))
    \/ ProcessStageDelta(FlatStageDeltas(Len(stgLog) + 1))
    \/ Finish
    \/ StreamError

NextPrep == Prepare

Spec == Init /\ [][Next]_vars
SpecFlat == InitFlat /\ [][NextFlat]_vars
SpecPrep == InitPrep /\ [][NextPrep]_vars

----------------------------------------------------------------------------
(* Properties of the stage propagation *)

\* The stage that stages_map holds for an index
StageAt(idx) == choice.stages[stages_map[idx]]

\* The indices of the stage deltas processed
SeenIndices == { stgLog[n].index : n \in 1..Len(stgLog) }

\* C1: when _execute returns, every stage opened during the invocation, for any
\* stage index, is closed: no entry of stages_map is still open, and every index
\* that a delta named has its entry.
C1_AllStagesClosedOnReturn ==
    pc = "done" =>
        /\ \A idx \in DOMAIN stages_map : StageAt(idx).closed
        /\ \A i \in 1..Len(choice.stages) : choice.stages[i].closed
        /\ SeenIndices \subseteq DOMAIN stages_map

\* _execute has returned after opening two stages that no 'completed' delta closed
C1_Witness ==
    /\ pc = "done"
    /\ Cardinality(DOMAIN stages_map) = 2
    /\ \A n \in 1..Len(stgLog) : stgLog[n].status = None

\* C2: once a 'completed' delta has closed the stage of an index, no later delta for
\* that index causes an append-name, append-content or add-attachment call on the
\* closed stage.
C2_NoCallOnClosedStage == closedCalls = 0

\* The field of a delta that the priority order name > content > attachments >
\* status selects among those present
Selected(d) ==
    IF d.name # None THEN "name"
    ELSE IF d.content # None THEN "content"
    ELSE IF d.attachments # None THEN "attachments"
    ELSE IF d.status # None THEN "status"
    ELSE "none"

\* What a field of a delta adds to the same field of a stage
Fragment(d, field) == d[field][1]

\* The n-th delta is the first one seen for its index
FirstSeen(n) == \A j \in 1..(n - 1) : stgLog[j].index # stgLog[n].index

\* A 'completed' delta closed the stage of the n-th delta's index before it arrived
ArrivesClosed(n) ==
    \E j \in 1..(n - 1) :
        /\ stgLog[j].index = stgLog[n].index
        /\ ~FirstSeen(j)
        /\ Selected(stgLog[j]) = "status"
        /\ stgLog[j].status = Some(<<"completed">>)

\* The n-th delta is one for index idx whose highest-priority present field is `field`
Selects(n, idx, field) ==
    stgLog[n].index = idx /\ Selected(stgLog[n]) = field

\* The n-th delta is one for index idx of which `field` is applied: the name of the
\* delta that opens the stage, and the selected field of a later one that arrives
\* before the stage is closed
Applies(n, idx, field) ==
    /\ stgLog[n].index = idx
    /\ IF FirstSeen(n)
       THEN field = "name" /\ stgLog[n].name # None
       ELSE ~ArrivesClosed(n) /\ Selected(stgLog[n]) = field

\* The concatenation, in arrival order, of the fragments that the first n deltas give
\* to `field` of the stage of index idx: those selected, or only those applied
RECURSIVE ConcatFragments(_, _, _, _)
ConcatFragments(idx, field, onlyApplied, n) ==
    IF n = 0 THEN << >>
    ELSE ConcatFragments(idx, field, onlyApplied, n - 1)
         \o (IF (IF onlyApplied THEN Applies(n, idx, field) ELSE Selects(n, idx, field))
             THEN Fragment(stgLog[n], field) ELSE << >>)

----------------------------------------------------------------------------
(* Properties of _prepare_messages *)

\* The list that the stand-alone call returned
Outbound == prepared[1].messages

\* The call was made with a prompt and propagate_history true
PropagatingCall ==
    /\ prepared # None
    /\ "prompt" \in DOMAIN args
    /\ "propagate_history" \in DOMAIN args /\ args["propagate_history"] = TRUE

\* The call was made with a prompt and propagate_history false or absent
OneShotCall ==
    /\ prepared # None
    /\ "prompt" \in DOMAIN args
    /\ ("propagate_history" \in DOMAIN args => args["propagate_history"] = FALSE)

\* The i-th transcript message (from 1) is an assistant turn whose state has an entry
\* keyed by the callee, whatever its value
KeyedTurn(i) ==
    /\ messages[i].role = "assistant"
    /\ messages[i].custom_content # None
    /\ messages[i].custom_content[1].state # None
    /\ SelfName \in DOMAIN messages[i].custom_content[1].state[1]

\* ... and the value of the entry is not empty
NonEmptyKeyedTurn(i) ==
    KeyedTurn(i) /\ messages[i].custom_content[1].state[1][SelfName] # EmptyDict

\* The positions among 1..n of the keyed turns, or of the non-empty ones only, in
\* transcript order
RECURSIVE Positions(_, _)
Positions(nonEmpty, n) ==
    IF n = 0 THEN << >>
    ELSE Positions(nonEmpty, n - 1)
         \o (IF (IF nonEmpty THEN NonEmptyKeyedTurn(n) ELSE KeyedTurn(n)) THEN << n >> ELSE << >>)

\* The dict of the i-th message with its state replaced by the callee's sub-state
Narrowed(i) ==
    [role |-> messages[i].role,
     content |-> messages[i].content,
     custom_content |->
        [k \in {"state"} \cup SetFields(messages[i].custom_content[1], {"attachments"}) |->
            IF k = "state" THEN messages[i].custom_content[1].state[1][SelfName]
            ELSE CustomContentDict(messages[i].custom_content[1])["attachments"]]]

\* The new user turn: the prompt, with the custom content of the last transcript turn
NewUserTurn ==
    [role |-> "user",
     content |-> args["prompt"],
     custom_content |->
        IF messages[Len(messages)].custom_content = None THEN None
        ELSE Some(CustomContentDict(messages[Len(messages)].custom_content[1]))]

\* C4: with propagate_history true, no assistant turn of the outbound list built for
\* the callee carries state keyed under another callee.
C4_HistoryIsolation ==
    (PropagatingCall /\ prepared[1].err = "") =>
        \A j \in 1..Len(Outbound) :
            (/\ Outbound[j].role = "assistant"
             /\ "custom_content" \in DOMAIN Outbound[j]
             /\ "state" \in DOMAIN Outbound[j]["custom_content"])
            => OtherName \notin DOMAIN Outbound[j]["custom_content"]["state"]

\* C5 as stated: every assistant turn whose state has an entry keyed by the callee,
\* whatever its value, yields the pair (the turn immediately before it, unmodified;
\* its copy narrowed to the callee's sub-state); the pairs are in transcript order with
\* nothing between them, and the new user turn ends the list.
C5_PairForEveryKeyedTurn ==
    PropagatingCall =>
        LET pos == Positions(FALSE, Len(messages)) IN
        /\ prepared[1].err = ""
        /\ Len(Outbound) = 2 * Len(pos) + 1
        /\ \A k \in 1..Len(pos) :
            /\ pos[k] > 1
            /\ Outbound[2 * k - 1] = MessageDict(messages[pos[k] - 1])
            /\ Outbound[2 * k] = Narrowed(pos[k])
        /\ Outbound[Len(Outbound)] = NewUserTurn

\* C5 amended: the turns that yield a pair are the assistant turns whose entry for the
\* callee has a non-empty value, and the first element of a pair is the turn at the
\* preceding position, which for a matched turn at index 0 is the last transcript turn.
C5_PairForEveryNonEmptyKeyedTurn ==
    PropagatingCall =>
        LET pos == Positions(TRUE, Len(messages)) IN
        /\ prepared[1].err = ""
        /\ Len(Outbound) = 2 * Len(pos) + 1
        /\ \A k \in 1..Len(pos) :
            /\ Outbound[2 * k - 1] =
                    MessageDict(messages[IF pos[k] > 1 THEN pos[k] - 1 ELSE Len(messages)])
            /\ Outbound[2 * k] = Narrowed(pos[k])
        /\ Outbound[Len(Outbound)] = NewUserTurn

\* Two turns carry a non-empty entry of the callee, one an empty entry
C5_Witness ==
    /\ PropagatingCall
    /\ Len(Positions(TRUE, Len(messages))) = 2
    /\ Len(Positions(FALSE, Len(messages))) = 3
    /\ Len(Outbound) = 5

\* C6: with propagate_history false or absent, the list is exactly one user turn with
\* the prompt as content and the custom content of the last transcript turn, if any.
C6_OneShot ==
    OneShotCall =>
        /\ prepared[1].err = ""
        /\ Outbound = << NewUserTurn >>

\* A one-shot call over a transcript with a turn carrying the callee's state and a last
\* turn carrying custom content
C6_Witness ==
    /\ OneShotCall
    /\ "propagate_history" \notin DOMAIN args
    /\ \E i \in 1..Len(messages) : NonEmptyKeyedTurn(i)
    /\ messages[Len(messages)].custom_content # None
    /\ Len(Outbound) = 1

\* C7: with propagate_history true and a matched assistant turn at transcript index 0,
\* _prepare_messages fails with an error and returns no list.
C7_FailFastAtIndexZero ==
    (PropagatingCall /\ NonEmptyKeyedTurn(1)) =>
        /\ prepared[1].err # ""
        /\ Outbound = << >>

----------------------------------------------------------------------------
(* Properties of the consumed stream *)

\* The state of the first choice's delta of the n-th chunk, None if it has none
ChunkState(n) ==
    IF Len(chunkLog[n].choices) = 0 THEN None
    ELSE IF chunkLog[n].choices[1].delta.custom_content = None THEN None
    ELSE chunkLog[n].choices[1].delta.custom_content[1].state

\* The chunks that carried a non-empty state
StateChunks == { n \in 1..Len(chunkLog) : ChunkState(n) # None /\ ChunkState(n)[1] # EmptyDict }

\* The state of the most recent chunk that carried a non-empty one
LastState ==
    IF StateChunks = {} THEN None
    ELSE ChunkState(CHOOSE n \in StateChunks : \A m \in StateChunks : m <= n)

\* The content deltas of the first choice of the first n chunks, concatenated
RECURSIVE ContentOf(_)
ContentOf(n) ==
    IF n = 0 THEN << >>
    ELSE ContentOf(n - 1)
         \o (IF Len(chunkLog[n].choices) = 0 THEN << >>
             ELSE IF chunkLog[n].choices[1].delta.content = None THEN << >>
             ELSE chunkLog[n].choices[1].delta.content[1])

\* The attachments of the first choice's custom content of the first n chunks
RECURSIVE AttachmentsOf(_)
AttachmentsOf(n) ==
    IF n = 0 THEN << >>
    ELSE AttachmentsOf(n - 1)
         \o (IF Len(chunkLog[n].choices) = 0 THEN << >>
             ELSE IF chunkLog[n].choices[1].delta.custom_content = None THEN << >>
             ELSE IF chunkLog[n].choices[1].delta.custom_content[1].attachments = None THEN << >>
             ELSE chunkLog[n].choices[1].delta.custom_content[1].attachments[1])

\* C8: after any chunks, the accumulated state is exactly the state of the most recent
\* chunk that carried a non-empty one, and absent if none did; the returned message
\* carries that state.
C8_StateLastWriteWins ==
    /\ custom_content.state = LastState
    /\ result # None => result[1].custom_content.state = LastState

\* Two chunks carried non-empty states, and _execute returned
C8_Witness ==
    /\ pc = "done"
    /\ StateChunks = {1, 2}
    /\ ChunkState(1) # ChunkState(2)

\* C9: when _execute returns, it returns one message with role tool, the id of the
\* tool call, the content deltas of the first choice of each chunk concatenated in
\* arrival order, and the accumulated state and attachments; it returns nothing else.
C9_ToolMessage ==
    /\ pc = "done" =>
        result = Some([role |-> "tool",
                       content |-> ContentOf(Len(chunkLog)),
                       custom_content |-> [state |-> LastState,
                                           attachments |-> Some(AttachmentsOf(Len(chunkLog)))],
                       tool_call_id |-> ToolCallId])
    /\ pc # "done" => result = None

\* _execute returned after two chunks that both carried content, attachments and state
C9_Witness ==
    /\ pc = "done"
    /\ Len(chunkLog) = 2
    /\ Len(ContentOf(2)) = 2
    /\ Len(AttachmentsOf(2)) = 4
    /\ StateChunks = {1, 2}

\* C10: when the arguments lack the prompt key, the invocation ends in an error before
\* the request: no request is sent, no chunk is consumed, no stage is opened, no
\* attachment is added to the choice and no message is returned.
C10_MissingPromptAborts ==
    "prompt" \notin DOMAIN args =>
        /\ pc \in {"init", "failed"}
        /\ pc = "failed" => err = "KeyError"
        /\ request = None
        /\ chunkLog = << >> /\ stgLog = << >>
        /\ choice.stages = << >> /\ choice.attachments = << >>
        /\ result = None

\* The invocation was aborted by the missing prompt
C10_Witness ==
    /\ "prompt" \notin DOMAIN args
    /\ pc = "failed"
    /\ err = "KeyError"

----------------------------------------------------------------------------
(* Properties of a failed stream *)

\* A 'completed' delta closed the stage of index idx
ClosedByDelta(idx) ==
    \E n \in 1..Len(stgLog) :
        /\ stgLog[n].index = idx
        /\ ~FirstSeen(n)
        /\ Selected(stgLog[n]) = "status"
        /\ stgLog[n].status = Some(<<"completed">>)

\* C11: when the stream raises a transport error, _execute ends in that error with no
\* stage closed by it: a stage is closed only if a 'completed' delta closed it, the
\* content mirrored and accumulated and the names given to the stages stay as the
\* chunks consumed left them, no accumulated attachment is added to the choice and no
\* message is returned.
C11_TransportErrorLeavesStagesOpen ==
    (pc = "failed" /\ err = "TransportError") =>
        /\ \A idx \in DOMAIN stages_map :
            /\ StageAt(idx).closed <=> ClosedByDelta(idx)
            /\ StageAt(idx).name = ConcatFragments(idx, "name", TRUE, Len(stgLog))
        /\ content = ContentOf(Len(chunkLog))
        /\ stage.content = ContentOf(Len(chunkLog))
        /\ custom_content.attachments = Some(AttachmentsOf(Len(chunkLog)))
        /\ choice.attachments = << >>
        /\ result = None

\* The stream failed after chunks that carried content, attachments and the deltas
\* that opened and named a stage, which is still open
C11_Witness ==
    /\ pc = "failed" /\ err = "TransportError"
    /\ 0 \in DOMAIN stages_map /\ ~StageAt(0).closed /\ Len(StageAt(0).name) = 2
    /\ content # << >>
    /\ AttachmentsOf(Len(chunkLog)) # << >>

----------------------------------------------------------------------------
(* Properties of closing *)

\* The n-th delta is a 'completed' delta for a stage that is already closed
ClosesAgain(n) ==
    /\ ~FirstSeen(n)
    /\ Selected(stgLog[n]) = "status"
    /\ stgLog[n].status = Some(<<"completed">>)
    /\ ArrivesClosed(n)

\* C12: a 'completed' delta for a stage that is already closed, and the close of all
\* mapped stages at the end of the stream after a 'completed' delta, never end the
\* invocation in an error; the stage stays closed and its name, content and
\* attachments are what they were.
C12_CloseIsIdempotent ==
    /\ err = "StageClosed" => ~ClosesAgain(Len(stgLog))
    /\ \A idx \in DOMAIN stages_map :
        /\ ClosedByDelta(idx) => StageAt(idx).closed
        /\ StageAt(idx).name = ConcatFragments(idx, "name", TRUE, Len(stgLog))
        /\ StageAt(idx).content = ConcatFragments(idx, "content", TRUE, Len(stgLog))
        /\ StageAt(idx).attachments = ConcatFragments(idx, "attachments", TRUE, Len(stgLog))
    /\ pc = "done" => err = "" /\ \A idx \in DOMAIN stages_map : StageAt(idx).closed

\* A stage was closed by a 'completed' delta, received a second one,
\* and was closed once more at the end of the stream
C12_Witness ==
    /\ pc = "done"
    /\ Len(stgLog) = 3
    /\ stgLog[1].index = 0
    /\ ~ClosesAgain(2) /\ ClosedByDelta(0)
    /\ ClosesAgain(3)
    /\ StageAt(0).closed

----------------------------------------------------------------------------
(* Properties of the request *)

\* C13: the configuration of the request is the arguments of the tool call without
\* the prompt key, whatever string the prompt is: it has no prompt key, and every
\* other key with its value.
C13_ConfigurationWithoutPrompt ==
    request # None =>
        request[1].configuration = Restrict(args, DOMAIN args \ {"prompt"})

----------------------------------------------------------------------------
(* The worked scenario of history propagation *)

\* The call of the scenario: the callee is SelfName, the transcript is a user turn
\* 'hi' and an assistant turn whose state is {SelfName: {x: 1}}, the prompt is
\* 'continue' and the history is propagated
ScenarioCall ==
    /\ prepared # None
    /\ messages = << Msg("user", <<"hi">>, None),
                     Msg("assistant", <<"ok">>, StateCC([k \in {SelfName} |-> Sub1])) >>
    /\ args = [prompt |-> <<"continue">>, propagate_history |-> TRUE]

\* The first two turns of the scenario's outbound list: the user turn as it is and
\* the assistant turn with the callee's state
ScenarioHistory ==
    << [role |-> "user", content |-> <<"hi">>],
       [role |-> "assistant", content |-> <<"ok">>, custom_content |-> [state |-> Sub1]] >>

\* C15 as stated: the outbound list of the scenario is the user turn 'hi', the
\* assistant turn with state {x: 1} and a user turn 'continue' that carries nothing
\* else, no state of the transcript's last turn in particular.
C15_ScenarioBareUserTurn ==
    ScenarioCall =>
        Outbound = ScenarioHistory
                   \o << [role |-> "user", content |-> <<"continue">>, custom_content |-> None] >>

\* C15 amended: the outbound list of the scenario is the user turn 'hi', the assistant
\* turn with state {x: 1} and a user turn 'continue' that carries the custom content
\* of the transcript's last turn, here the assistant turn's whole state mapping
\* {SelfName: {x: 1}}.
C15_ScenarioUserTurnWithLastCustomContent ==
    ScenarioCall =>
        Outbound = ScenarioHistory
                   \o << [role |-> "user", content |-> <<"continue">>,
                          custom_content |-> Some([state |-> [k \in {SelfName} |-> Sub1]])] >>

\* The call of the scenario has returned its three turns
C15_Witness ==
    /\ ScenarioCall
    /\ prepared[1].err = ""
    /\ Len(Outbound) = 3

----------------------------------------------------------------------------
(* Properties of the choice and of the caller's stage *)

\* C16: until _execute has consumed the whole stream and closed the mapped stages, no
\* attachment is on the choice; when it returns, the choice holds every attachment of
\* the chunks' custom content once, in arrival order, which is the attachment list of
\* the returned message, and the mapped stages are closed.
C16_AttachmentsAfterStream ==
    /\ pc # "done" => choice.attachments = << >>
    /\ pc = "done" =>
        /\ choice.attachments = AttachmentsOf(Len(chunkLog))
        /\ choice.attachments = result[1].custom_content.attachments[1]
        /\ \A idx \in DOMAIN stages_map : StageAt(idx).closed

\* _execute returned after a chunk that carried two attachments and one that carried
\* the delta of a stage
C16_Witness ==
    /\ pc = "done"
    /\ Len(choice.attachments) = 2
    /\ choice.attachments[1] # choice.attachments[2]
    /\ DOMAIN stages_map # {}

\* C17: after every chunk, the content of the caller's stage and the accumulated
\* content are both the concatenation, in arrival order, of the non-empty content
\* deltas of the first choice of the chunks consumed; a chunk with no choices or no
\* content adds to neither.
C17_StageMirrorsContent ==
    /\ stage.content = content
    /\ content = ContentOf(Len(chunkLog))

\* _execute returned after two chunks that carried content
C17_Witness ==
    /\ pc = "done"
    /\ Len(chunkLog) = 2
    /\ stage.content = Frag("c", 1) \o Frag("c", 2)

----------------------------------------------------------------------------
(* Properties of the stage index map *)

\* The position in the log of the first delta for index idx
FirstDelta(idx) == CHOOSE n \in 1..Len(stgLog) : stgLog[n].index = idx /\ FirstSeen(n)

\* C18: every index seen is bound to one stage of the choice, the one that the first
\* delta for the index opened, whichever field that delta carried: the stages are as
\* many as the distinct indices seen, and the stage of an index is the one opened when
\* the index was first seen, so no later delta opened another or bound the index anew.
C18_OneStagePerIndex ==
    /\ DOMAIN stages_map = SeenIndices
    /\ Len(choice.stages) = Cardinality(SeenIndices)
    /\ \A idx \in DOMAIN stages_map :
        stages_map[idx] = Cardinality({ stgLog[j].index : j \in 1..FirstDelta(idx) })

\* A delta with no name opened the stage of index 0, a delta opened the stage of
\* index 1, and a third delta came for index 0
C18_Witness ==
    /\ Len(stgLog) = 3
    /\ stgLog[1].index = 0 /\ stgLog[1].name = None
    /\ stgLog[2].index = 1
    /\ stgLog[3].index = 0
    /\ Len(choice.stages) = 2

----------------------------------------------------------------------------
(* Properties of one stage delta *)

\* What the delta d adds to `field` of an open stage: its fragment if the priority
\* order selects that field, nothing otherwise
Added(d, field) == IF Selected(d) = field THEN Fragment(d, field) ELSE << >>

----------------------------------------------------------------------------
(* Properties of the transcript *)

\* C20: a call of _prepare_messages, in either mode, leaves every turn of the caller's
\* transcript as it was, the whole state mapping of each matched assistant turn
\* included; so a call for the other callee gets the same list from the transcript
\* that this call left as from the one it was given, and this call gets the same list
\* from the transcript that a call for the other callee leaves.
C20_TranscriptNotMutated ==
    [][ prepared' # prepared =>
          /\ messages' = messages
          /\ PrepareMessages(args, messages', OtherName)
                = PrepareMessages(args, messages, OtherName)
          /\ prepared' = Some(PrepareMessages(args, PrepareTranscript(args, messages, OtherName),
                                              SelfName))
      ]_vars

\* A call that propagates the history has narrowed the copy of an assistant turn whose
\* state holds entries of both callees; the transcript's turn still holds both
C20_Witness ==
    /\ prepared # None
    /\ PropagatingCall
    /\ Len(messages) = 2
    /\ messages[2] = Msg("assistant", <<"ok">>,
                         StateCC([k \in {SelfName, OtherName} |->
                                    IF k = SelfName THEN Sub2 ELSE Sub1]))
    /\ Outbound[2]["custom_content"] = [state |-> Sub2]

----------------------------------------------------------------------------
(* Properties of two concurrent tool calls *)

\* The n-th delta of a call's log is the first one for its index
FirstSeenIn(log, n) == \A j \in 1..(n - 1) : log[j].index # log[n].index

\* A 'completed' delta among the first n of the log closed the stage of index idx
ClosedIn(log, idx, n) ==
    \E j \in 1..n :
        /\ log[j].index = idx
        /\ ~FirstSeenIn(log, j)
        /\ Selected(log[j]) = "status"
        /\ log[j].status = Some(<<"completed">>)

\* The fragments that the first n deltas of the log give to `field` of the stage of
\* index idx, concatenated: the name of the delta that opens the stage, and the
\* selected field of every later one that arrives before the stage is closed
RECURSIVE ConcatIn(_, _, _, _)
ConcatIn(log, idx, field, n) ==
    IF n = 0 THEN << >>
    ELSE ConcatIn(log, idx, field, n - 1)
         \o (IF /\ log[n].index = idx
                /\ IF FirstSeenIn(log, n)
                   THEN field = "name" /\ log[n].name # None
                   ELSE ~ClosedIn(log, idx, n - 1) /\ Selected(log[n]) = field
             THEN Fragment(log[n], field) ELSE << >>)

\* The content deltas of the first n chunks of a call's log, concatenated
RECURSIVE ContentIn(_, _)
ContentIn(log, n) ==
    IF n = 0 THEN << >>
    ELSE ContentIn(log, n - 1)
         \o (IF Len(log[n].choices) = 0 THEN << >>
             ELSE IF log[n].choices[1].delta.content = None THEN << >>
             ELSE log[n].choices[1].delta.content[1])

\* The stages that a call's stages_map holds are what the call's own deltas make of
\* them, as in a run of the call alone: one stage per index seen, with the fragments
\* applied in order, closed if one of its own 'completed' deltas closed it or the
\* call has returned
OwnStages(map, log, returned) ==
    /\ DOMAIN map = { log[n].index : n \in 1..Len(log) }
    /\ \A idx \in DOMAIN map :
        LET s == choice.stages[map[idx]] IN
        /\ s.name = ConcatIn(log, idx, "name", Len(log))
        /\ s.content = ConcatIn(log, idx, "content", Len(log))
        /\ s.attachments = ConcatIn(log, idx, "attachments", Len(log))
        /\ s.closed = (returned \/ ClosedIn(log, idx, Len(log)))

\* The message that a call returns is made of its own chunks
OwnResult(res, position, log, id) ==
    IF position = "done"
    THEN res = Some([role |-> "tool", content |-> ContentIn(log, Len(log)),
                     custom_content |-> [state |-> None, attachments |-> Some(<< >>)],
                     tool_call_id |-> id])
    ELSE res = None

\* C14: two calls that run concurrently on one choice, interleaved at the chunks,
\* keep their stages apart: no stage of the choice is held by both stages_maps, also
\* for the same index, and the stages, the accumulated content and the returned
\* message of each call are what its own chunks and deltas make them, whatever the
\* other call did and whether or not the other call failed.
C14_CallsKeepTheirStagesApart ==
    /\ \A i \in DOMAIN stages_map, j \in DOMAIN sib.stages_map :
        stages_map[i] # sib.stages_map[j]
    /\ Len(choice.stages) = Cardinality(DOMAIN stages_map) + Cardinality(DOMAIN sib.stages_map)
    /\ OwnStages(stages_map, stgLog, pc = "done")
    /\ OwnStages(sib.stages_map, sib.stgLog, sib.pc = "done")
    /\ content = ContentIn(chunkLog, Len(chunkLog))
    /\ sib.content = ContentIn(sib.chunkLog, Len(sib.chunkLog))
    /\ stage.content = content /\ sib.stage.content = sib.content
    /\ OwnResult(result, pc, chunkLog, ToolCallId)
    /\ OwnResult(sib.result, sib.pc, sib.chunkLog, SiblingCallId)

\* Both calls opened and named a stage for index 0 in interleaved chunks; the second
\* call's stream failed and left its stage open, the first call returned
C14_Witness ==
    /\ pc = "done"
    /\ sib.pc = "failed" /\ sib.err = "TransportError"
    /\ 0 \in DOMAIN stages_map /\ 0 \in DOMAIN sib.stages_map
    /\ stages_map[0] = 2 /\ sib.stages_map[0] = 1
    /\ Len(choice.stages[2].name) = 2 /\ choice.stages[2].closed
    /\ Len(choice.stages[1].name) = 2 /\ ~choice.stages[1].closed
    /\ Len(chunkLog) = 2 /\ Len(sib.chunkLog) = 2

====
